---- MODULE Spec2Model ----
(***************************************************************************)
(* Model of INDIConnection (plugins/TelescopeControl/src/INDI), the        *)
(* adapter between the telescope-control GUI and the INDI client library.  *)
(*                                                                         *)
(* Every public operation of the class takes mMutex for its whole body, so *)
(* each operation is one atomic action here.  The property tables of the   *)
(* devices (which properties a device exposes, the state of their          *)
(* members) live in the INDI library; the adapter reaches them through the *)
(* mTelescope handle.  They are part of the state, changed by the adapter's*)
(* commands and by the device itself.                                      *)
(***************************************************************************)
EXTENDS Integers, Sequences, FiniteSets, TLC

(* ------------------------------ bounds --------------------------------- *)
NumDevices == 2          \* device names are 1..NumDevices
MaxDevices == 2          \* cap on the length of the registry mDevices
MaxCoord == 1            \* coordinate values range over 0..MaxCoord
SlewRateCount == 2       \* members of TELESCOPE_SLEW_RATE: indices 0..count-1
MaxExitCode == 1         \* exit codes range over -1..MaxExitCode
MaxUnits == 2            \* finite doubles are 1 + v epsilon, v in 0..MaxUnits

(* --------------------------- program constants ------------------------- *)
SLEW_GUIDE == 0
SLEW_STOP == SLEW_GUIDE - 1

NullDevice == 0
Names == 1 .. NumDevices
Handles == Names \cup {NullDevice}
Mount == 1
\* the coordinate pairs <<RA, DEC>> used as arguments and as device values
Coords == {<<0, 0>>} \cup {<<ra, MaxCoord - ra>> : ra \in 0 .. MaxCoord}
ExitCodes == -1 .. MaxExitCode
Speeds == (SLEW_STOP - 1) .. (SlewRateCount + 1)
RateIndices == 0 .. (SlewRateCount - 1)

SwitchProps == {"ON_COORD_SET", "TELESCOPE_PARK", "TELESCOPE_MOTION_NS",
                "TELESCOPE_MOTION_WE", "TELESCOPE_SLEW_RATE"}
PropNames == SwitchProps \cup {"EQUATORIAL_EOD_COORD"}

Members(p) ==
  CASE p = "ON_COORD_SET" -> {"TRACK", "SLEW", "SYNC"}
    [] p = "TELESCOPE_PARK" -> {"PARK", "UNPARK"}
    [] p = "TELESCOPE_MOTION_NS" -> {"MOTION_NORTH", "MOTION_SOUTH"}
    [] p = "TELESCOPE_MOTION_WE" -> {"MOTION_WEST", "MOTION_EAST"}
    [] p = "TELESCOPE_SLEW_RATE" -> RateIndices

VARIABLES
  mDevices,      \* QStringList mDevices
  mTelescope,    \* INDI::BaseDevice mTelescope (NullDevice: invalid handle)
  mCoordinates,  \* Coordinates mCoordinates, <<RA, DEC>>
  connected,     \* per device: BaseDevice::isConnected()
  exposed,       \* per device: the properties getSwitch/getNumber find
  sw,            \* per device and switch property: the set of members ON
  num,           \* per device: the values np[0], np[1] of EQUATORIAL_EOD_COORD
  call,          \* the operation executed last, with its arguments
  sent,          \* requests handed to the INDI client by that operation
  emitted,       \* signals emitted by that operation
  onlyDiscovery, \* no removeDevice / serverDisconnected has been delivered
  discovered,    \* non-null devices passed to newDevice so far (while onlyDiscovery)
  notified,      \* names carried by newDeviceReceived so far (while onlyDiscovery)
  frames,        \* per thread: the operations it is executing, innermost last
  mMutex,        \* std::mutex mMutex: the threads that own it
  access,        \* the field access made by the last step of a thread
  lhs,           \* Coordinates: left operand of the last comparison
  rhs,           \* Coordinates: right operand of the last comparison
  verdict        \* the results of the last comparison

adapter == <<mDevices, mTelescope, mCoordinates>>
device == <<connected, exposed, sw, num>>
hist == <<onlyDiscovery, discovered, notified>>
threads == <<frames, mMutex, access>>
comparison == <<lhs, rhs, verdict>>
vars == <<mDevices, mTelescope, mCoordinates, connected, exposed, sw, num,
          call, sent, emitted, onlyDiscovery, discovered, notified,
          frames, mMutex, access, lhs, rhs, verdict>>

\* the two call sources: the GUI thread and the thread of the INDI client
Threads == {"gui", "client"}

NoAccess == [thread |-> "none", fn |-> "none", field |-> "none", locked |-> TRUE]

\* a double: finite (1 + v epsilon), an infinity (v its sign) or a NaN
Finite(v) == [kind |-> "finite", v |-> v]
Infinity(sign) == [kind |-> "inf", v |-> sign]
NaN == [kind |-> "nan", v |-> 0]

\* std::numeric_limits<double>::epsilon(), in units of itself
Epsilon == 1

Doubles == {Finite(v) : v \in 0 .. MaxUnits} \cup {Infinity(1), Infinity(-1), NaN}
CoordinateValues == [RA : Doubles, DEC : Doubles]

NoVerdict == [eq |-> FALSE, ne |-> FALSE, swapped |-> FALSE, self |-> FALSE]

NoProperty == [device |-> NullDevice, name |-> "", number |-> <<0, 0>>, switches |-> {}]

Call(op) == [op |-> op, device |-> NullDevice, speed |-> 0, coords |-> <<0, 0>>,
             code |-> 0, property |-> NoProperty]

\* the property objects the client library hands to the callbacks
Properties ==
  [device : Names, name : {"EQUATORIAL_EOD_COORD"}, number : Coords, switches : {{}}]
  \cup [device : Names, name : {"TELESCOPE_SLEW_RATE"}, number : {<<0, 0>>},
        switches : SUBSET RateIndices]
  \cup [device : Names, name : {"ON_COORD_SET"}, number : {<<0, 0>>}, switches : {{"TRACK"}}]

Init ==
  /\ mDevices = <<>>
  /\ mTelescope = NullDevice
  /\ mCoordinates = <<0, 0>>
  /\ connected = [d \in Names |-> FALSE]
  /\ exposed = [d \in Names |-> {}]
  /\ sw = [d \in Names |-> [p \in SwitchProps |-> {}]]
  /\ num = [d \in Names |-> <<0, 0>>]
  /\ call = Call("constructor")
  /\ sent = <<>>
  /\ emitted = <<>>
  /\ onlyDiscovery = TRUE
  /\ discovered = <<>>
  /\ notified = <<>>
  /\ frames = [t \in Threads |-> <<>>]
  /\ mMutex = {}
  /\ access = NoAccess
  /\ lhs = [RA |-> Finite(0), DEC |-> Finite(0)]
  /\ rhs = [RA |-> Finite(0), DEC |-> Finite(0)]
  /\ verdict = NoVerdict

(* ------------------------- library behaviour --------------------------- *)
\* BaseDevice::isDeviceNameMatch: an invalid handle has the empty name
isDeviceNameMatch(handle, name) == handle # NullDevice /\ handle = name

\* BaseDevice::isConnected: an invalid handle has no CONNECTION property
isConnected(handle) == handle # NullDevice /\ connected[handle]

\* BaseDevice::getSwitch / getNumber (...).isValid()
hasProperty(handle, p) == handle # NullDevice /\ p \in exposed[handle]

Signal(name, arg) == [signal |-> name, arg |-> arg]
Tx(kind, dev, prop, val) == [kind |-> kind, device |-> dev, prop |-> prop, val |-> val]

(* ------------------------------ queries -------------------------------- *)
position == mCoordinates

devices == mDevices

isDeviceConnected == IF mTelescope = NullDevice THEN FALSE ELSE isConnected(mTelescope)

(* --------------------- callbacks: device registry ---------------------- *)
\* QStringList::indexOf + removeAt: drops the first occurrence only
RECURSIVE indexOf(_, _, _)
indexOf(list, name, from) ==
  IF from > Len(list) THEN -1
  ELSE IF list[from] = name THEN from
  ELSE indexOf(list, name, from + 1)

removeAt(list, index) ==
  [i \in 1 .. (Len(list) - 1) |-> IF i < index THEN list[i] ELSE list[i + 1]]

\* the name inserted at the front instead of the back
prependName(list, name) == <<name>> \o list

appendName(list, name) == Append(list, name)

newDevice(dp) ==
  /\ Len(mDevices) < MaxDevices
  /\ call' = [Call("newDevice") EXCEPT !.device = dp]
  /\ UNCHANGED <<threads, comparison>>
  /\ sent' = <<>>
  /\ IF dp = NullDevice
     THEN /\ emitted' = <<>>
          /\ UNCHANGED <<mDevices, mTelescope, hist>>
     ELSE /\ mDevices' = appendName(mDevices, dp)
          /\ mTelescope' = dp
          /\ emitted' = <<Signal("newDeviceReceived", dp)>>
          /\ onlyDiscovery' = onlyDiscovery
          /\ discovered' = IF onlyDiscovery THEN Append(discovered, dp) ELSE discovered
          /\ notified' = IF onlyDiscovery THEN notified \o emitted' ELSE notified
  /\ UNCHANGED <<mCoordinates, device>>

removeDevice(dp) ==
  /\ call' = [Call("removeDevice") EXCEPT !.device = dp]
  /\ UNCHANGED <<threads, comparison>>
  /\ sent' = <<>>
  /\ IF dp = NullDevice
     THEN /\ emitted' = <<>>
          /\ UNCHANGED <<mDevices, mTelescope>>
     ELSE LET index == indexOf(mDevices, dp, 1)
          IN /\ mDevices' = IF index # -1 THEN removeAt(mDevices, index) ELSE mDevices
             /\ mTelescope' = IF isDeviceNameMatch(mTelescope, dp) THEN NullDevice
                              ELSE mTelescope
             /\ emitted' = <<Signal("removeDeviceReceived", dp)>>
  /\ onlyDiscovery' = FALSE
  /\ discovered' = <<>>
  /\ notified' = <<>>
  /\ UNCHANGED <<mCoordinates, device>>

\* mDevices.clear() left out
keptDevices(list) == list

clearedDevices(list) == <<>>

serverConnected ==
  /\ call' = Call("serverConnected")
  /\ UNCHANGED <<threads, comparison>>
  /\ sent' = <<>>
  /\ emitted' = <<Signal("serverConnectedReceived", 0)>>
  /\ UNCHANGED <<adapter, device, hist>>

\* the cached coordinates reset together with the registry
serverDisconnectedResetsPosition(exit_code) ==
  /\ call' = [Call("serverDisconnected") EXCEPT !.code = exit_code]
  /\ UNCHANGED <<threads, comparison>>
  /\ sent' = <<>>
  /\ mDevices' = clearedDevices(mDevices)
  /\ mCoordinates' = <<0, 0>>
  /\ emitted' = <<Signal("serverDisconnectedReceived", exit_code)>>
  /\ onlyDiscovery' = FALSE
  /\ discovered' = <<>>
  /\ notified' = <<>>
  /\ UNCHANGED <<mTelescope, device>>

serverDisconnected(exit_code) ==
  /\ call' = [Call("serverDisconnected") EXCEPT !.code = exit_code]
  /\ UNCHANGED <<threads, comparison>>
  /\ sent' = <<>>
  /\ mDevices' = clearedDevices(mDevices)
  /\ emitted' = <<Signal("serverDisconnectedReceived", exit_code)>>
  /\ onlyDiscovery' = FALSE
  /\ discovered' = <<>>
  /\ notified' = <<>>
  /\ UNCHANGED <<mTelescope, mCoordinates, device>>

(* -------------------- callbacks: device properties --------------------- *)
connectDevice(handle) == <<Tx("connect", handle, "CONNECTION", {})>>

newProperty(property) ==
  /\ call' = [Call("newProperty") EXCEPT !.property = property]
  /\ UNCHANGED <<threads, comparison>>
  /\ emitted' = <<>>
  /\ IF isDeviceNameMatch(mTelescope, property.device)
     THEN /\ sent' = <<>>
          /\ UNCHANGED mCoordinates
     ELSE /\ mCoordinates' = IF property.name = "EQUATORIAL_EOD_COORD"
                             THEN <<property.number[1], property.number[2]>>
                             ELSE mCoordinates
          /\ sent' = IF ~isConnected(mTelescope) THEN connectDevice(mTelescope) ELSE <<>>
  /\ UNCHANGED <<mDevices, mTelescope, device, hist>>

\* Q_UNUSED(property)
removeProperty(property) ==
  /\ call' = Call("removeProperty")
  /\ UNCHANGED <<threads, comparison>>
  /\ sent' = <<>>
  /\ emitted' = <<>>
  /\ UNCHANGED <<adapter, device, hist>>

\* the index counted from one
findOnSwitchIndexFromOne(switches) ==
  IF switches = {} THEN -1
  ELSE (CHOOSE i \in switches : \A j \in switches : i <= j) + 1

\* ISwitchVectorProperty::findOnSwitchIndex: first member that is ON, or -1
findOnSwitchIndex(switches) ==
  IF switches = {} THEN -1
  ELSE CHOOSE i \in switches : \A j \in switches : i <= j

updateProperty(property) ==
  /\ call' = [Call("updateProperty") EXCEPT !.property = property]
  /\ UNCHANGED <<threads, comparison>>
  /\ sent' = <<>>
  /\ IF property.name = "TELESCOPE_SLEW_RATE"
     THEN /\ emitted' = <<Signal("speedChanged", findOnSwitchIndex(property.switches))>>
          /\ UNCHANGED mCoordinates
     ELSE IF property.name = "EQUATORIAL_EOD_COORD"
     THEN /\ emitted' = <<>>
          /\ mCoordinates' = <<property.number[1], property.number[2]>>
     ELSE /\ emitted' = <<>>
          /\ UNCHANGED mCoordinates
  /\ UNCHANGED <<mDevices, mTelescope, device, hist>>

(* ------------------- the devices, seen through INDI -------------------- *)
\* the device answers a connect / disconnect: isConnected() changes
deviceConnection(d, state) ==
  /\ connected[d] # state
  /\ connected' = [connected EXCEPT ![d] = state]
  /\ call' = [Call("deviceConnection") EXCEPT !.device = d]
  /\ UNCHANGED <<threads, comparison>>
  /\ sent' = <<>>
  /\ emitted' = <<>>
  /\ UNCHANGED <<adapter, exposed, sw, num, hist>>

\* the device defines property p: getSwitch(p) / getNumber(p) become valid
deviceDefines(d, p) ==
  /\ p \notin exposed[d]
  /\ exposed' = [exposed EXCEPT ![d] = @ \cup {p}]
  /\ call' = [Call("deviceDefines") EXCEPT !.device = d]
  /\ UNCHANGED <<threads, comparison>>
  /\ sent' = <<>>
  /\ emitted' = <<>>
  /\ UNCHANGED <<adapter, connected, sw, num, hist>>

\* the device changes the members of one of its switch properties
deviceSetsSwitch(d, p, on) ==
  /\ p \in exposed[d]
  /\ sw[d][p] # on
  /\ sw' = [sw EXCEPT ![d][p] = on]
  /\ call' = [Call("deviceSetsSwitch") EXCEPT !.device = d]
  /\ UNCHANGED <<threads, comparison>>
  /\ sent' = <<>>
  /\ emitted' = <<>>
  /\ UNCHANGED <<adapter, connected, exposed, num, hist>>

\* the device reports new values of EQUATORIAL_EOD_COORD
deviceSetsNumber(d, coords) ==
  /\ "EQUATORIAL_EOD_COORD" \in exposed[d]
  /\ num[d] # coords
  /\ num' = [num EXCEPT ![d] = coords]
  /\ call' = [Call("deviceSetsNumber") EXCEPT !.device = d]
  /\ UNCHANGED <<threads, comparison>>
  /\ sent' = <<>>
  /\ emitted' = <<>>
  /\ UNCHANGED <<adapter, connected, exposed, sw, hist>>

(* --------------------------- commands ---------------------------------- *)
\* the connection test left out of the first checks of a command
unavailableNullOnly == mTelescope = NullDevice

\* "if (!mTelescope) return; if (!mTelescope->isConnected()) return;"
unavailable == mTelescope = NullDevice \/ ~isConnected(mTelescope)

sendNewSwitch(dev, p, on) == <<Tx("switch", dev, p, on)>>

sendNewNumber(dev, coords) == <<Tx("number", dev, "EQUATORIAL_EOD_COORD", coords)>>

\* TRACK set and sent whatever its state
trackIsOffAlways(switchVector) == TRUE

\* line 66: track->s == ISS_OFF
trackIsOff(switchVector) == "TRACK" \notin switchVector

setPosition(coords) ==
  /\ call' = [Call("setPosition") EXCEPT !.coords = coords]
  /\ UNCHANGED <<threads, comparison>>
  /\ emitted' = <<>>
  /\ IF unavailable \/ ~hasProperty(mTelescope, "ON_COORD_SET")
     THEN /\ sent' = <<>>
          /\ UNCHANGED <<sw, num>>
     ELSE LET switchVector == sw[mTelescope]["ON_COORD_SET"]
              trackOff == trackIsOff(switchVector)
              tracked == IF trackOff THEN switchVector \cup {"TRACK"} ELSE switchVector
              first == IF trackOff THEN sendNewSwitch(mTelescope, "ON_COORD_SET", tracked)
                       ELSE <<>>
          IN /\ sw' = [sw EXCEPT ![mTelescope]["ON_COORD_SET"] = tracked]
             /\ IF ~hasProperty(mTelescope, "EQUATORIAL_EOD_COORD")
                THEN /\ sent' = first
                     /\ UNCHANGED num
                ELSE /\ num' = [num EXCEPT ![mTelescope] = <<coords[1], coords[2]>>]
                     /\ sent' = first \o sendNewNumber(mTelescope, num'[mTelescope])
  /\ UNCHANGED <<adapter, connected, exposed, hist>>

\* lines 108-110: TRACK off, SLEW off, SYNC on
syncModeOn(switchVector) == ((switchVector \ {"TRACK"}) \ {"SLEW"}) \cup {"SYNC"}

\* the restore without "sync->s = ISS_OFF"
syncModeOffKeepsSync(switchVector) == (switchVector \cup {"TRACK"}) \ {"SLEW"}

\* lines 126-128: TRACK on, SLEW off, SYNC off
syncModeOff(switchVector) == ((switchVector \cup {"TRACK"}) \ {"SLEW"}) \ {"SYNC"}

syncPosition(coords) ==
  /\ call' = [Call("syncPosition") EXCEPT !.coords = coords]
  /\ UNCHANGED <<threads, comparison>>
  /\ emitted' = <<>>
  /\ IF unavailable \/ ~hasProperty(mTelescope, "ON_COORD_SET")
     THEN /\ sent' = <<>>
          /\ UNCHANGED <<sw, num>>
     ELSE LET synced == syncModeOn(sw[mTelescope]["ON_COORD_SET"])
              first == sendNewSwitch(mTelescope, "ON_COORD_SET", synced)
              restored == syncModeOff(synced)
          IN IF ~hasProperty(mTelescope, "EQUATORIAL_EOD_COORD")
             THEN /\ sw' = [sw EXCEPT ![mTelescope]["ON_COORD_SET"] = synced]
                  /\ sent' = first
                  /\ UNCHANGED num
             ELSE /\ num' = [num EXCEPT ![mTelescope] = <<coords[1], coords[2]>>]
                  /\ sw' = [sw EXCEPT ![mTelescope]["ON_COORD_SET"] = restored]
                  /\ sent' = first \o sendNewNumber(mTelescope, num'[mTelescope])
                               \o sendNewSwitch(mTelescope, "ON_COORD_SET", restored)
  /\ UNCHANGED <<adapter, connected, exposed, hist>>

\* UNPARK set without svp.reset()
unparkedNoReset(svp) == svp \cup {"UNPARK"}

\* lines 160-162: svp.reset(); UNPARK on
unparked(svp) == {} \cup {"UNPARK"}

unParkTelescope ==
  /\ call' = Call("unParkTelescope")
  /\ UNCHANGED <<threads, comparison>>
  /\ emitted' = <<>>
  /\ IF unavailable \/ ~hasProperty(mTelescope, "TELESCOPE_PARK")
     THEN /\ sent' = <<>>
          /\ UNCHANGED sw
     ELSE LET svp == unparked(sw[mTelescope]["TELESCOPE_PARK"])
          IN /\ sw' = [sw EXCEPT ![mTelescope]["TELESCOPE_PARK"] = svp]
             /\ sent' = sendNewSwitch(mTelescope, "TELESCOPE_PARK", svp)
  /\ UNCHANGED <<adapter, connected, exposed, num, hist>>

\* setSpeed without slewRateSP.reset()
setSpeedNoReset(speed) ==
  LET valid == hasProperty(mTelescope, "TELESCOPE_SLEW_RATE")
      slewRateSP == sw[mTelescope]["TELESCOPE_SLEW_RATE"]
  IN IF ~valid \/ speed < 0 \/ speed > SlewRateCount
     THEN {[rate |-> slewRateSP, sent |-> <<>>]}
     ELSE IF speed \in RateIndices
     THEN {[rate |-> slewRateSP \cup {speed},
            sent |-> sendNewSwitch(mTelescope, "TELESCOPE_SLEW_RATE",
                                   slewRateSP \cup {speed})]}
     ELSE {[rate |-> r, sent |-> sendNewSwitch(mTelescope, "TELESCOPE_SLEW_RATE", r)]
             : r \in SUBSET RateIndices}

\* setSpeed: the states of TELESCOPE_SLEW_RATE it can leave and what it sends.
\* speed = count passes the range test of line 306, and slewRateSP[speed]
\* then refers to no member of the property: after the reset() the write
\* lands outside the vector, and the members are left in any state.
setSpeed(speed) ==
  LET valid == hasProperty(mTelescope, "TELESCOPE_SLEW_RATE")
      slewRateSP == sw[mTelescope]["TELESCOPE_SLEW_RATE"]
  IN IF ~valid \/ speed < 0 \/ speed > SlewRateCount
     THEN {[rate |-> slewRateSP, sent |-> <<>>]}
     ELSE IF speed \in RateIndices
     THEN {[rate |-> {} \cup {speed},
            sent |-> sendNewSwitch(mTelescope, "TELESCOPE_SLEW_RATE", {} \cup {speed})]}
     ELSE {[rate |-> r, sent |-> sendNewSwitch(mTelescope, "TELESCOPE_SLEW_RATE", r)]
             : r \in SUBSET RateIndices}

\* the motion property reset before its member is set
motionOnAlone(svp, member) == {member}

\* motion->setState(ISS_ON)
motionOn(svp, member) == svp \cup {member}

\* the body the four move operations share, for their property and member
move(prop, member, speed) ==
  /\ emitted' = <<>>
  /\ IF unavailable \/ ~hasProperty(mTelescope, prop)
     THEN /\ sent' = <<>>
          /\ UNCHANGED sw
     ELSE IF speed = SLEW_STOP
     THEN LET svp == sw[mTelescope][prop] \ {member}
          IN /\ sw' = [sw EXCEPT ![mTelescope][prop] = svp]
             /\ sent' = sendNewSwitch(mTelescope, prop, svp)
     ELSE \E out \in setSpeed(speed) :
            LET svp == motionOn(sw[mTelescope][prop], member)
            IN /\ sw' = [sw EXCEPT ![mTelescope]["TELESCOPE_SLEW_RATE"] = out.rate,
                                   ![mTelescope][prop] = svp]
               /\ sent' = out.sent \o sendNewSwitch(mTelescope, prop, svp)
  /\ UNCHANGED <<adapter, connected, exposed, num, hist>>

moveNorth(speed) ==
  /\ call' = [Call("moveNorth") EXCEPT !.speed = speed]
  /\ UNCHANGED <<threads, comparison>>
  /\ move("TELESCOPE_MOTION_NS", "MOTION_NORTH", speed)

moveEast(speed) ==
  /\ call' = [Call("moveEast") EXCEPT !.speed = speed]
  /\ UNCHANGED <<threads, comparison>>
  /\ move("TELESCOPE_MOTION_WE", "MOTION_EAST", speed)

moveSouth(speed) ==
  /\ call' = [Call("moveSouth") EXCEPT !.speed = speed]
  /\ UNCHANGED <<threads, comparison>>
  /\ move("TELESCOPE_MOTION_NS", "MOTION_SOUTH", speed)

moveWest(speed) ==
  /\ call' = [Call("moveWest") EXCEPT !.speed = speed]
  /\ UNCHANGED <<threads, comparison>>
  /\ move("TELESCOPE_MOTION_WE", "MOTION_WEST", speed)

(* --------------------------- specifications ---------------------------- *)
\* the callbacks of the INDI client thread, for every device
NextCallbacks ==
  \/ \E dp \in Handles : newDevice(dp)
  \/ \E dp \in Handles : removeDevice(dp)
  \/ \E property \in Properties : newProperty(property)
  \/ \E property \in Properties : removeProperty(property)
  \/ \E property \in Properties : updateProperty(property)
  \/ serverConnected
  \/ \E exit_code \in ExitCodes : serverDisconnected(exit_code)
  \/ \E d \in Names, state \in BOOLEAN : deviceConnection(d, state)

SpecCallbacks == Init /\ [][NextCallbacks]_vars

\* slewing and syncing the mount
NextPosition ==
  \/ \E dp \in {Mount, NullDevice} : newDevice(dp)
  \/ removeDevice(Mount)
  \/ \E state \in BOOLEAN : deviceConnection(Mount, state)
  \/ \E p \in {"ON_COORD_SET", "EQUATORIAL_EOD_COORD", "TELESCOPE_PARK"} :
       deviceDefines(Mount, p)
  \/ \E p \in {"ON_COORD_SET", "TELESCOPE_PARK"} :
       \E on \in SUBSET Members(p) : deviceSetsSwitch(Mount, p, on)
  \/ \E coords \in Coords : deviceSetsNumber(Mount, coords)
  \/ \E coords \in Coords : setPosition(coords)
  \/ \E coords \in Coords : syncPosition(coords)
  \/ unParkTelescope

SpecPosition == Init /\ [][NextPosition]_vars

\* moving the mount
NextMotion ==
  \/ \E dp \in {Mount, NullDevice} : newDevice(dp)
  \/ removeDevice(Mount)
  \/ \E state \in BOOLEAN : deviceConnection(Mount, state)
  \/ \E p \in {"TELESCOPE_MOTION_NS", "TELESCOPE_MOTION_WE", "TELESCOPE_SLEW_RATE"} :
       deviceDefines(Mount, p)
  \/ \E p \in {"TELESCOPE_MOTION_NS", "TELESCOPE_MOTION_WE", "TELESCOPE_SLEW_RATE"} :
       \E on \in SUBSET Members(p) : deviceSetsSwitch(Mount, p, on)
  \/ \E speed \in Speeds : moveNorth(speed)
  \/ \E speed \in Speeds : moveEast(speed)
  \/ \E speed \in Speeds : moveSouth(speed)
  \/ \E speed \in Speeds : moveWest(speed)

SpecMotion == Init /\ [][NextMotion]_vars

(* ------------------------ Coordinates equality ------------------------- *)
\* x - y in IEEE arithmetic; the finite values lie in [1, 2), where the
\* difference of two doubles is exact
Minus(x, y) ==
  IF x.kind = "nan" \/ y.kind = "nan" THEN NaN
  ELSE IF x.kind = "inf" /\ y.kind = "inf"
  THEN IF x.v = y.v THEN NaN ELSE Infinity(x.v)
  ELSE IF x.kind = "inf" THEN x
  ELSE IF y.kind = "inf" THEN Infinity(0 - y.v)
  ELSE Finite(x.v - y.v)

\* std::abs(double)
Abs(x) ==
  IF x.kind = "nan" THEN NaN
  ELSE IF x.kind = "inf" THEN Infinity(1)
  ELSE Finite(IF x.v < 0 THEN 0 - x.v ELSE x.v)

\* x > epsilon for a double x: false when x is a NaN
GreaterThanEpsilon(x) ==
  IF x.kind = "nan" THEN FALSE
  ELSE IF x.kind = "inf" THEN x.v > 0
  ELSE x.v > Epsilon

\* the comparison with std::abs left out
equalsWithoutAbs(a, b) ==
  IF GreaterThanEpsilon(Minus(a.RA, b.RA)) THEN FALSE
  ELSE IF GreaterThanEpsilon(Minus(a.DEC, b.DEC)) THEN FALSE
  ELSE TRUE

\* Coordinates::operator==
equals(a, b) ==
  IF GreaterThanEpsilon(Abs(Minus(a.RA, b.RA))) THEN FALSE
  ELSE IF GreaterThanEpsilon(Abs(Minus(a.DEC, b.DEC))) THEN FALSE
  ELSE TRUE

\* Coordinates::operator!=
notEquals(a, b) == ~equals(a, b)

\* a == b and a != b evaluated, with b == a and a == a beside them
compare(a, b) ==
  /\ lhs' = a
  /\ rhs' = b
  /\ verdict' = [eq |-> equals(a, b), ne |-> notEquals(a, b),
                 swapped |-> equals(b, a), self |-> equals(a, a)]
  /\ call' = Call("operator==")
  /\ sent' = <<>>
  /\ emitted' = <<>>
  /\ UNCHANGED <<adapter, device, hist, threads>>

NextComparison == \E a \in CoordinateValues, b \in CoordinateValues : compare(a, b)

SpecComparison == Init /\ [][NextComparison]_vars

(* ------------------------ threads and mMutex -------------------------- *)
\* The steps of an operation that matter to the locking discipline: taking
\* and releasing mMutex, touching a member field, emitting a signal.  fn is
\* the function whose text contains the step.
Lock(fn) == [kind |-> "lock", fn |-> fn, field |-> "mMutex"]
Unlock(fn) == [kind |-> "unlock", fn |-> fn, field |-> "mMutex"]
Access(fn, field) == [kind |-> "access", fn |-> fn, field |-> field]
Emit(fn) == [kind |-> "emit", fn |-> fn, field |-> "none"]
Return(fn) == [kind |-> "return", fn |-> fn, field |-> "none"]

\* a guard that takes the mutex and keeps it after the scope is left
GuardedNoRelease(fn, body) == <<Lock(fn)>> \o body

\* std::lock_guard<std::mutex> lock(mMutex) as the first statement of fn:
\* the mutex is taken on entry and released when the scope is left, on
\* whichever return statement
Guarded(fn, body) == <<Lock(fn)>> \o body \o <<Unlock(fn)>>

\* n successive uses of mTelescope by fn
Telescope(fn, n) == [i \in 1 .. n |-> Access(fn, "mTelescope")]

\* setSpeed reads mTelescope once and takes no lock of its own
setSpeedSteps == <<Access("setSpeed", "mTelescope")>>

\* The paths through each operation, one per return statement reached.
positionPaths == {Guarded("position", <<Access("position", "mCoordinates")>>)}

devicesPaths == {Guarded("devices", <<Access("devices", "mDevices")>>)}

isDeviceConnectedPaths ==
  {Guarded("isDeviceConnected", Telescope("isDeviceConnected", n)) : n \in 1 .. 2}

\* setPosition and syncPosition: return at the null check, the connection
\* check, the ON_COORD_SET lookup, the EQUATORIAL_EOD_COORD lookup, the end
positionCommandPaths(fn) == {Guarded(fn, Telescope(fn, n)) : n \in 1 .. 4}

\* unParkTelescope: return at the availability check (one or two uses of
\* mTelescope), at the TELESCOPE_PARK lookup, at the end
unParkTelescopePaths ==
  {Guarded("unParkTelescope", Telescope("unParkTelescope", n)) : n \in 1 .. 3}

\* moveNorth .. moveWest: as unParkTelescope, and setSpeed is called on the
\* way to the end unless the speed is SLEW_STOP
movePaths(fn) ==
  {Guarded(fn, Telescope(fn, n)) : n \in 1 .. 3}
    \cup {Guarded(fn, Telescope(fn, 3) \o setSpeedSteps)}

newDevicePaths ==
  {Guarded("newDevice", <<>>),
   Guarded("newDevice", <<Access("newDevice", "mDevices"),
                          Access("newDevice", "mTelescope"),
                          Emit("newDevice")>>)}

removeDevicePaths ==
  {Guarded("removeDevice", <<>>),
   Guarded("removeDevice", <<Access("removeDevice", "mDevices"),
                             Access("removeDevice", "mTelescope"),
                             Emit("removeDevice")>>),
   Guarded("removeDevice", <<Access("removeDevice", "mDevices"),
                             Access("removeDevice", "mDevices"),
                             Access("removeDevice", "mTelescope"),
                             Access("removeDevice", "mTelescope"),
                             Emit("removeDevice")>>)}

newPropertyPaths ==
  {Guarded("newProperty", Telescope("newProperty", 1)),
   Guarded("newProperty", Telescope("newProperty", 2)),
   Guarded("newProperty", Telescope("newProperty", 1)
                            \o <<Access("newProperty", "mCoordinates")>>
                            \o Telescope("newProperty", 3))}

\* the body is Q_UNUSED(property): no lock and no field
removePropertyPaths == {<<Return("removeProperty")>>}

updatePropertyPaths ==
  {Guarded("updateProperty", <<>>),
   Guarded("updateProperty", <<Emit("updateProperty")>>),
   Guarded("updateProperty", <<Access("updateProperty", "mCoordinates")>>)}

serverConnectedPaths == {Guarded("serverConnected", <<Emit("serverConnected")>>)}

serverDisconnectedPaths ==
  {Guarded("serverDisconnected", <<Access("serverDisconnected", "mDevices"),
                                   Emit("serverDisconnected")>>)}

\* what the GUI side calls: the queries and the commands
GuiPaths ==
  positionPaths \cup devicesPaths \cup isDeviceConnectedPaths
    \cup positionCommandPaths("setPosition") \cup positionCommandPaths("syncPosition")
    \cup unParkTelescopePaths
    \cup movePaths("moveNorth") \cup movePaths("moveEast")
    \cup movePaths("moveSouth") \cup movePaths("moveWest")

\* what the INDI client calls
ClientPaths ==
  newDevicePaths \cup removeDevicePaths \cup newPropertyPaths
    \cup removePropertyPaths \cup updatePropertyPaths
    \cup serverConnectedPaths \cup serverDisconnectedPaths

EntryPaths(t) == IF t = "gui" THEN GuiPaths ELSE ClientPaths

\* the innermost operation of thread t and its next step
Running(t) == frames[t] # <<>>
Innermost(t) == frames[t][Len(frames[t])]
NextStep(t) == Head(Innermost(t))

\* frames[t] once the next step is done; an operation with no step left
\* has returned
Stepped(t) ==
  IF Len(Innermost(t)) = 1
  THEN SubSeq(frames[t], 1, Len(frames[t]) - 1)
  ELSE [frames[t] EXCEPT ![Len(frames[t])] = Tail(@)]

threadStep == UNCHANGED <<adapter, device, hist, call, sent, emitted, comparison>>

\* thread t enters an operation
enter(t, path) ==
  /\ ~Running(t)
  /\ frames' = [frames EXCEPT ![t] = <<path>>]
  /\ UNCHANGED <<mMutex, access>>
  /\ threadStep

\* std::mutex::lock by a thread that does not own the mutex: it waits
\* until no thread does
acquire(t) ==
  /\ Running(t)
  /\ NextStep(t).kind = "lock"
  /\ mMutex = {}
  /\ mMutex' = {t}
  /\ frames' = [frames EXCEPT ![t] = Stepped(t)]
  /\ UNCHANGED access
  /\ threadStep

\* std::mutex::lock by the thread that owns the mutex is undefined: the
\* thread waits for itself for ever (no step), or lock throws and the
\* guards of the calling operations release the mutex as the stack unwinds
lockThrows(t) ==
  /\ Running(t)
  /\ NextStep(t).kind = "lock"
  /\ t \in mMutex
  /\ mMutex' = mMutex \ {t}
  /\ frames' = [frames EXCEPT ![t] = <<>>]
  /\ UNCHANGED access
  /\ threadStep

\* the end of the lock_guard's scope
release(t) ==
  /\ Running(t)
  /\ NextStep(t).kind = "unlock"
  /\ mMutex' = mMutex \ {t}
  /\ frames' = [frames EXCEPT ![t] = Stepped(t)]
  /\ UNCHANGED access
  /\ threadStep

\* a read or write of mTelescope, mCoordinates or mDevices
touch(t) ==
  /\ Running(t)
  /\ NextStep(t).kind = "access"
  /\ access' = [thread |-> t, fn |-> NextStep(t).fn, field |-> NextStep(t).field,
                locked |-> t \in mMutex]
  /\ frames' = [frames EXCEPT ![t] = Stepped(t)]
  /\ UNCHANGED mMutex
  /\ threadStep

\* emit with a queued connection: the slot runs later, on another thread
emitQueued(t) ==
  /\ Running(t)
  /\ NextStep(t).kind = "emit"
  /\ frames' = [frames EXCEPT ![t] = Stepped(t)]
  /\ UNCHANGED <<mMutex, access>>
  /\ threadStep

\* emit with a direct connection: the slot runs inside emit, on thread t,
\* and calls a query or a command of the adapter
emitDirect(t, path) ==
  /\ Running(t)
  /\ NextStep(t).kind = "emit"
  /\ frames' = [frames EXCEPT ![t] = Append(Stepped(t), path)]
  /\ UNCHANGED <<mMutex, access>>
  /\ threadStep

\* an operation that returns without a lock or a field
returns(t) ==
  /\ Running(t)
  /\ NextStep(t).kind = "return"
  /\ frames' = [frames EXCEPT ![t] = Stepped(t)]
  /\ UNCHANGED <<mMutex, access>>
  /\ threadStep

NextThreads ==
  \/ \E t \in Threads : \E path \in EntryPaths(t) : enter(t, path)
  \/ \E t \in Threads : acquire(t)
  \/ \E t \in Threads : lockThrows(t)
  \/ \E t \in Threads : release(t)
  \/ \E t \in Threads : touch(t)
  \/ \E t \in Threads : emitQueued(t)
  \/ \E t \in Threads : \E path \in GuiPaths : emitDirect(t, path)
  \/ \E t \in Threads : returns(t)

SpecThreads == Init /\ [][NextThreads]_vars

\* every operation, against a mount that defines its coordinate properties
\* and one motion property
MountProperties == {property \in Properties : property.device = Mount}

Next ==
  \/ \E dp \in {Mount, NullDevice} : newDevice(dp)
  \/ removeDevice(Mount)
  \/ \E property \in MountProperties : newProperty(property)
  \/ \E property \in MountProperties : removeProperty(property)
  \/ \E property \in MountProperties : updateProperty(property)
  \/ serverConnected
  \/ \E exit_code \in ExitCodes : serverDisconnected(exit_code)
  \/ \E state \in BOOLEAN : deviceConnection(Mount, state)
  \/ \E p \in {"ON_COORD_SET", "EQUATORIAL_EOD_COORD", "TELESCOPE_MOTION_NS"} :
       deviceDefines(Mount, p)
  \/ \E coords \in Coords : setPosition(coords)
  \/ \E coords \in Coords : syncPosition(coords)
  \/ unParkTelescope
  \/ \E speed \in Speeds : moveNorth(speed)
  \/ \E speed \in Speeds : moveEast(speed)
  \/ \E speed \in Speeds : moveSouth(speed)
  \/ \E speed \in Speeds : moveWest(speed)

Spec == Init /\ [][Next]_vars

TypeOK ==
  /\ mTelescope \in Handles
  /\ mCoordinates \in Coords
  /\ Len(mDevices) <= MaxDevices
  /\ \A i \in 1 .. Len(mDevices) : mDevices[i] \in Names

(* ------------------------------ claims --------------------------------- *)
InRegistry(name) == \E i \in 1 .. Len(mDevices) : mDevices[i] = name

ActiveConnected == mTelescope # NullDevice /\ isConnected(mTelescope)

MoveOps == {"moveNorth", "moveEast", "moveSouth", "moveWest"}

MotionProp(op) ==
  IF op \in {"moveNorth", "moveSouth"} THEN "TELESCOPE_MOTION_NS" ELSE "TELESCOPE_MOTION_WE"

MotionMember(op) ==
  CASE op = "moveNorth" -> "MOTION_NORTH"
    [] op = "moveSouth" -> "MOTION_SOUTH"
    [] op = "moveEast" -> "MOTION_EAST"
    [] op = "moveWest" -> "MOTION_WEST"

RateUntouched == \A d \in Names : sw'[d]["TELESCOPE_SLEW_RATE"] = sw[d]["TELESCOPE_SLEW_RATE"]

NoRateSent == \A i \in 1 .. Len(sent') : sent'[i].prop # "TELESCOPE_SLEW_RATE"

\* C1: in every state the callbacks can reach, an active telescope is a
\* device the registry lists.
C1_ActiveTelescopeRegistered == mTelescope # NullDevice => InRegistry(mTelescope)

\* C2: syncPosition on an active, connected telescope issues exactly the three
\* transmissions SYNC-on, coordinates, TRACK-restored, whatever properties
\* the device exposes.
C2_SyncAlwaysThree ==
  (call.op = "syncPosition" /\ ActiveConnected) =>
    sent = <<Tx("switch", mTelescope, "ON_COORD_SET", {"SYNC"}),
             Tx("number", mTelescope, "EQUATORIAL_EOD_COORD", call.coords),
             Tx("switch", mTelescope, "ON_COORD_SET", {"TRACK"})>>

\* C2 (amended): syncPosition on an active, connected telescope issues exactly
\* the three transmissions SYNC-on, coordinates, TRACK-restored when the
\* device exposes both ON_COORD_SET and EQUATORIAL_EOD_COORD; it issues none
\* when ON_COORD_SET is missing, and only the first (SYNC on) when
\* EQUATORIAL_EOD_COORD alone is missing.
C2_SyncThreeWhenExposed ==
  (call.op = "syncPosition" /\ ActiveConnected) =>
    IF ~hasProperty(mTelescope, "ON_COORD_SET") THEN sent = <<>>
    ELSE IF ~hasProperty(mTelescope, "EQUATORIAL_EOD_COORD")
    THEN sent = <<Tx("switch", mTelescope, "ON_COORD_SET", {"SYNC"})>>
    ELSE sent = <<Tx("switch", mTelescope, "ON_COORD_SET", {"SYNC"}),
                  Tx("number", mTelescope, "EQUATORIAL_EOD_COORD", call.coords),
                  Tx("switch", mTelescope, "ON_COORD_SET", {"TRACK"})>>

C2_Witness ==
  /\ call.op = "syncPosition"
  /\ ActiveConnected
  /\ Len(sent) = 3
  /\ call.coords = <<1, 0>>

\* C3: a speed outside [0, count), count included, makes setSpeed a no-op:
\* no member of TELESCOPE_SLEW_RATE changes and the property is not sent.
C3_SetSpeedRangeChecked ==
  [][(call'.op \in MoveOps /\ call'.speed # SLEW_STOP
        /\ (call'.speed < 0 \/ call'.speed >= SlewRateCount))
       => (RateUntouched /\ NoRateSent)]_vars

\* C4: setPosition on an active, connected telescope that lacks ON_COORD_SET
\* or EQUATORIAL_EOD_COORD sends nothing and changes no member and no value.
C4_SetPositionNoOpWhenMissing ==
  [][(call'.op = "setPosition" /\ ActiveConnected
        /\ (~hasProperty(mTelescope, "ON_COORD_SET")
              \/ ~hasProperty(mTelescope, "EQUATORIAL_EOD_COORD")))
       => (sent' = <<>> /\ sw' = sw /\ num' = num)]_vars

\* C5: newProperty for a device that is not the active telescope changes no
\* cached coordinate and requests no connection.
C5_NewPropertyIgnoresOtherDevices ==
  [][(call'.op = "newProperty" /\ mTelescope # NullDevice
        /\ ~isDeviceNameMatch(mTelescope, call'.property.device))
       => (mCoordinates' = mCoordinates /\ sent' = <<>>)]_vars

\* C6: after removeDevice(D), D non-null: D is not in the registry, the
\* active telescope is absent if it was D, and exactly one device-removed
\* notification carrying D was emitted.
C6_RemoveDeviceRemoves ==
  [][(call'.op = "removeDevice" /\ call'.device # NullDevice)
       => /\ \A i \in 1 .. Len(mDevices') : mDevices'[i] # call'.device
          /\ (mTelescope = call'.device => mTelescope' = NullDevice)
          /\ emitted' = <<Signal("removeDeviceReceived", call'.device)>>]_vars

\* C7: the registry never holds a name twice.
C7_RegistryUnique ==
  \A i, j \in 1 .. Len(mDevices) : i # j => mDevices[i] # mDevices[j]

\* C8: a move with STOP deasserts its member and sends only the motion
\* property, leaving TELESCOPE_SLEW_RATE alone; with any other speed it first
\* sends TELESCOPE_SLEW_RATE with exactly member speed on, then the motion
\* property with its member asserted.
C8_MoveAnySpeedSetsRate ==
  [][(call'.op \in MoveOps /\ ActiveConnected
        /\ hasProperty(mTelescope, MotionProp(call'.op)))
       => LET prop == MotionProp(call'.op)
              member == MotionMember(call'.op)
              before == sw[mTelescope][prop]
          IN IF call'.speed = SLEW_STOP
             THEN /\ sent' = <<Tx("switch", mTelescope, prop, before \ {member})>>
                  /\ sw'[mTelescope][prop] = before \ {member}
                  /\ RateUntouched
             ELSE /\ sent' = <<Tx("switch", mTelescope, "TELESCOPE_SLEW_RATE",
                                  {call'.speed}),
                               Tx("switch", mTelescope, prop, before \cup {member})>>
                  /\ sw'[mTelescope][prop] = before \cup {member}]_vars

\* C8 (amended): a move with STOP deasserts its member and sends only the
\* motion property, leaving TELESCOPE_SLEW_RATE alone; with a speed in
\* [0, count) on a device exposing TELESCOPE_SLEW_RATE it first sends
\* TELESCOPE_SLEW_RATE with exactly member speed on, then the motion property
\* with its member asserted; with a speed below 0 or above count, or without
\* TELESCOPE_SLEW_RATE, it sends only the motion property with its member
\* asserted and leaves TELESCOPE_SLEW_RATE alone.  (speed = count on a device
\* exposing TELESCOPE_SLEW_RATE is not covered.)
C8_MoveSetsRateInRange ==
  [][(call'.op \in MoveOps /\ ActiveConnected
        /\ hasProperty(mTelescope, MotionProp(call'.op)))
       => LET prop == MotionProp(call'.op)
              member == MotionMember(call'.op)
              before == sw[mTelescope][prop]
              speed == call'.speed
              rated == hasProperty(mTelescope, "TELESCOPE_SLEW_RATE")
          IN IF speed = SLEW_STOP
             THEN /\ sent' = <<Tx("switch", mTelescope, prop, before \ {member})>>
                  /\ sw'[mTelescope][prop] = before \ {member}
                  /\ RateUntouched
             ELSE IF rated /\ 0 <= speed /\ speed < SlewRateCount
             THEN /\ sent' = <<Tx("switch", mTelescope, "TELESCOPE_SLEW_RATE", {speed}),
                               Tx("switch", mTelescope, prop, before \cup {member})>>
                  /\ sw'[mTelescope]["TELESCOPE_SLEW_RATE"] = {speed}
                  /\ sw'[mTelescope][prop] = before \cup {member}
             ELSE IF ~rated \/ speed < 0 \/ speed > SlewRateCount
             THEN /\ sent' = <<Tx("switch", mTelescope, prop, before \cup {member})>>
                  /\ sw'[mTelescope][prop] = before \cup {member}
                  /\ RateUntouched
             ELSE TRUE]_vars

C8_Witness ==
  /\ call.op = "moveNorth"
  /\ call.speed = 1
  /\ ActiveConnected
  /\ Len(sent) = 2
  /\ sent[1].prop = "TELESCOPE_SLEW_RATE"
  /\ sw[mTelescope]["TELESCOPE_MOTION_NS"] = {"MOTION_NORTH", "MOTION_SOUTH"}

\* C9: while only newDevice callbacks have been delivered, devices() is the
\* list of the non-null devices in discovery order, the active telescope is
\* the last of them, and one device-discovered notification per device was
\* emitted in that order; newDevice with a null device changes nothing and
\* emits nothing.
C9_DiscoveryOrder ==
  /\ [](onlyDiscovery =>
         /\ devices = discovered
         /\ mTelescope = IF discovered = <<>> THEN NullDevice
                         ELSE discovered[Len(discovered)]
         /\ notified = [i \in 1 .. Len(discovered) |->
                          Signal("newDeviceReceived", discovered[i])])
  /\ [][(call'.op = "newDevice" /\ call'.device = NullDevice)
          => (emitted' = <<>> /\ UNCHANGED <<adapter, device>>)]_vars

C9_Witness ==
  /\ onlyDiscovery
  /\ call.op = "newDevice"
  /\ discovered = <<2, 1>>

\* C10: after serverDisconnected(code), devices() is empty and exactly one
\* server-disconnected notification carrying code was emitted.
C10_DisconnectClears ==
  call.op = "serverDisconnected" =>
    /\ devices = <<>>
    /\ emitted = <<Signal("serverDisconnectedReceived", call.code)>>

C10_Witness ==
  /\ call.op = "serverDisconnected"
  /\ call.code = 1
  /\ mTelescope # NullDevice
  /\ devices = <<>>

CommandOps == MoveOps \cup {"setPosition", "syncPosition", "unParkTelescope"}

\* C11: a command invoked without an active telescope, or with one that is
\* not connected, sends nothing and leaves the active telescope, the cached
\* coordinates, the registry and every device property as they were.
C11_CommandsNoOpWhenUnavailable ==
  [][(call'.op \in CommandOps
        /\ (mTelescope = NullDevice \/ ~connected[mTelescope]))
       => (sent' = <<>> /\ emitted' = <<>> /\ UNCHANGED <<adapter, device>>)]_vars

C11_Witness ==
  /\ call.op = "moveNorth"
  /\ call.speed = 1
  /\ mTelescope = Mount
  /\ ~connected[Mount]
  /\ {"ON_COORD_SET", "EQUATORIAL_EOD_COORD", "TELESCOPE_MOTION_NS"} \subseteq exposed[Mount]
  /\ sw[Mount]["TELESCOPE_MOTION_NS"] = {"MOTION_SOUTH"}
  /\ sent = <<>>

\* C20: the cached coordinates change only in a newProperty or updateProperty
\* callback that carries EQUATORIAL_EOD_COORD; every command and every other
\* callback leaves them as they were.
C20_CoordinatesOnlyFromDevice ==
  [][(mCoordinates' # mCoordinates)
       => (call'.op \in {"newProperty", "updateProperty"}
             /\ call'.property.name = "EQUATORIAL_EOD_COORD")]_vars

C20_Witness ==
  /\ call.op = "setPosition"
  /\ Len(sent) = 1
  /\ sent[1].prop = "EQUATORIAL_EOD_COORD"
  /\ num[Mount] = <<1, 0>>
  /\ position = <<0, 1>>

\* C13: updateProperty with EQUATORIAL_EOD_COORD carrying (ra, dec) makes
\* position() return (ra, dec), and the cache keeps its value until a
\* newProperty or updateProperty carrying coordinates; updateProperty with
\* another name leaves cache, active telescope and registry alone; a
\* speed-changed notification is emitted by TELESCOPE_SLEW_RATE updates only
\* and carries the index of the asserted member.
C13_UpdatePropertyCaches ==
  [][LET property == call'.property
         update == call'.op = "updateProperty"
     IN /\ (update /\ property.name = "EQUATORIAL_EOD_COORD")
             => mCoordinates' = property.number
        /\ (update /\ property.name # "EQUATORIAL_EOD_COORD")
             => UNCHANGED <<mCoordinates, mTelescope, mDevices>>
        /\ (mCoordinates' # mCoordinates)
             => (call'.op \in {"newProperty", "updateProperty"}
                   /\ property.name = "EQUATORIAL_EOD_COORD")
        /\ (update /\ property.name = "TELESCOPE_SLEW_RATE")
             => /\ Len(emitted') = 1
                /\ emitted'[1].signal = "speedChanged"
                /\ IF property.switches = {} THEN emitted'[1].arg = -1
                   ELSE /\ emitted'[1].arg \in property.switches
                        /\ \A j \in property.switches : emitted'[1].arg <= j
        /\ (\E i \in 1 .. Len(emitted') : emitted'[i].signal = "speedChanged")
             => (update /\ property.name = "TELESCOPE_SLEW_RATE")]_vars

C13_Witness ==
  /\ call.op = "updateProperty"
  /\ call.property.name = "EQUATORIAL_EOD_COORD"
  /\ call.property.number = <<1, 0>>
  /\ call.property.device = 2
  /\ mTelescope = 1
  /\ position = <<1, 0>>

\* C14: unParkTelescope on an active, connected telescope sends TELESCOPE_PARK
\* once with UNPARK as its only asserted member; without TELESCOPE_PARK it
\* sends nothing and changes no member.
C14_UnparkOnly ==
  [][(call'.op = "unParkTelescope" /\ ActiveConnected)
       => IF hasProperty(mTelescope, "TELESCOPE_PARK")
          THEN /\ sent' = <<Tx("switch", mTelescope, "TELESCOPE_PARK", {"UNPARK"})>>
               /\ sw'[mTelescope]["TELESCOPE_PARK"] = {"UNPARK"}
          ELSE /\ sent' = <<>>
               /\ sw' = sw]_vars

C14_Witness ==
  /\ call.op = "unParkTelescope"
  /\ ActiveConnected
  /\ Len(sent) = 1
  /\ sw[mTelescope]["TELESCOPE_PARK"] = {"UNPARK"}

\* C16: when syncPosition returns, on any path, SYNC is off and TRACK is on.
C16_SyncNotLeftAsserted ==
  (call.op = "syncPosition" /\ ActiveConnected /\ hasProperty(mTelescope, "ON_COORD_SET"))
    => /\ "SYNC" \notin sw[mTelescope]["ON_COORD_SET"]
       /\ "TRACK" \in sw[mTelescope]["ON_COORD_SET"]

\* C17: setPosition on an active, connected telescope with ON_COORD_SET and
\* EQUATORIAL_EOD_COORD sends ON_COORD_SET iff TRACK was off, then sends
\* EQUATORIAL_EOD_COORD once with the coordinates; TRACK is on afterwards.
C17_SetPositionTransmissions ==
  [][(call'.op = "setPosition" /\ ActiveConnected
        /\ hasProperty(mTelescope, "ON_COORD_SET")
        /\ hasProperty(mTelescope, "EQUATORIAL_EOD_COORD"))
       => LET before == sw[mTelescope]["ON_COORD_SET"]
              number == Tx("number", mTelescope, "EQUATORIAL_EOD_COORD", call'.coords)
          IN /\ IF "TRACK" \in before
                THEN sent' = <<number>>
                ELSE sent' = <<Tx("switch", mTelescope, "ON_COORD_SET",
                                  before \cup {"TRACK"}), number>>
             /\ "TRACK" \in sw'[mTelescope]["ON_COORD_SET"]]_vars

C17_Witness ==
  /\ call.op = "setPosition"
  /\ call.coords = <<0, 1>>
  /\ ActiveConnected
  /\ Len(sent) = 2
  /\ sent[1].prop = "ON_COORD_SET"
  /\ sent[2].prop = "EQUATORIAL_EOD_COORD"

OtherMotionProp(op) ==
  IF op \in {"moveNorth", "moveSouth"} THEN "TELESCOPE_MOTION_WE" ELSE "TELESCOPE_MOTION_NS"

\* C19: a move neither changes nor sends the motion property of the other
\* axis, and in its own property it changes no member but its own.
C19_AxesIndependent ==
  [][(call'.op \in MoveOps)
       => LET own == MotionProp(call'.op)
              other == OtherMotionProp(call'.op)
              member == MotionMember(call'.op)
          IN /\ \A d \in Names : sw'[d][other] = sw[d][other]
             /\ \A i \in 1 .. Len(sent') : sent'[i].prop # other
             /\ \A d \in Names : sw'[d][own] \ {member} = sw[d][own] \ {member}]_vars

C19_Witness ==
  /\ call.op = "moveEast"
  /\ call.speed = 0
  /\ Len(sent) = 2
  /\ sw[Mount]["TELESCOPE_MOTION_NS"] = {"MOTION_NORTH", "MOTION_SOUTH"}
  /\ sw[Mount]["TELESCOPE_MOTION_WE"] = {"MOTION_EAST", "MOTION_WEST"}

\* |x - y| <= epsilon as a comparison of reals: it holds of no NaN and of no
\* infinity
AtMostEpsilonApart(x, y) ==
  /\ x.kind = "finite"
  /\ y.kind = "finite"
  /\ x.v - y.v <= Epsilon
  /\ y.v - x.v <= Epsilon

\* x - y is a NaN: an operand is a NaN, or both are the same infinity
DifferenceIsNaN(x, y) ==
  \/ x.kind = "nan"
  \/ y.kind = "nan"
  \/ (x.kind = "inf" /\ y.kind = "inf" /\ x.v = y.v)

\* C15: a == b holds iff both components differ by at most epsilon; the
\* relation is reflexive and symmetric, and a != b is its negation.
C15_EqualityIsWithinEpsilon ==
  call.op = "operator=="
    => /\ verdict.eq <=> (AtMostEpsilonApart(lhs.RA, rhs.RA)
                            /\ AtMostEpsilonApart(lhs.DEC, rhs.DEC))
       /\ verdict.self
       /\ verdict.swapped = verdict.eq
       /\ verdict.ne = ~verdict.eq

\* C15 (amended): a == b holds iff each component either differs by at most
\* epsilon or has a NaN difference (a NaN operand, or the same infinity on
\* both sides); the relation is reflexive and symmetric, and a != b is its
\* negation.
C15_EqualityIsNotBeyondEpsilon ==
  call.op = "operator=="
    => /\ verdict.eq <=>
            /\ (AtMostEpsilonApart(lhs.RA, rhs.RA) \/ DifferenceIsNaN(lhs.RA, rhs.RA))
            /\ (AtMostEpsilonApart(lhs.DEC, rhs.DEC) \/ DifferenceIsNaN(lhs.DEC, rhs.DEC))
       /\ verdict.self
       /\ verdict.swapped = verdict.eq
       /\ verdict.ne = ~verdict.eq

C15_Witness ==
  /\ call.op = "operator=="
  /\ lhs = [RA |-> Finite(0), DEC |-> Finite(2)]
  /\ rhs = [RA |-> Finite(1), DEC |-> Finite(1)]
  /\ verdict.eq
  /\ ~verdict.ne

\* the steps thread t has still to do, in all the operations it is inside
Pending(t) ==
  UNION {{frames[t][i][j] : j \in 1 .. Len(frames[t][i])} : i \in 1 .. Len(frames[t])}

\* C12: under any interleaving of the GUI thread's queries and commands with
\* the client thread's callbacks, every read or write of mTelescope,
\* mCoordinates or mDevices (those of setSpeed included) is made by a thread
\* that holds mMutex, at most one thread holds it, a thread that holds it
\* has its release still ahead, and a thread outside every operation (after
\* any return, removeProperty's included) does not hold it.
C12_FieldsOnlyUnderMutex ==
  /\ access.locked
  /\ Cardinality(mMutex) <= 1
  /\ \A t \in mMutex : \E step \in Pending(t) : step.kind = "unlock"
  /\ \A t \in Threads : ~Running(t) => t \notin mMutex

\* setSpeed has just read mTelescope under the GUI thread's lock while the
\* client thread waits to enter a callback
C12_Witness ==
  /\ access = [thread |-> "gui", fn |-> "setSpeed", field |-> "mTelescope", locked |-> TRUE]
  /\ mMutex = {"gui"}
  /\ Running("client")
  /\ NextStep("client").kind = "lock"

\* C18: a query or command called by a slot, while the signal of a callback
\* is delivered directly on the emitting thread, takes the mutex and
\* returns: it never comes to lock a mutex that its own thread holds.
C18_NestedCallReturns ==
  \A t \in Threads :
    (Running(t) /\ Len(frames[t]) > 1)
      => ~(NextStep(t).kind = "lock" /\ t \in mMutex)

====
